---- MODULE Spec2Model ----
(***************************************************************************)
(* Transcript-to-task-graph pipeline of the Insightboard backend:          *)
(*   - sanitizeTaskDependencies, detectCycles, markCyclicTasks (pure),     *)
(*   - processTranscript (cache, Postgres through Prisma, LLM call),       *)
(*   - createTranscriptJob and runJob (in-memory job store).               *)
(* Specifications:                                                         *)
(*   SpecGraph     the pure graph functions applied to every bounded batch,*)
(*   SpecDfs       detectCycles step by step on every bounded batch,       *)
(*   Spec          concurrent processTranscript requests,                  *)
(*   SpecSeq       processTranscript requests issued one after the other,  *)
(*   SpecRestart   SpecSeq with restarts of the process (the cache is      *)
(*                 lost, Postgres is kept),                                *)
(*   SpecJobs      job submissions and the requests the jobs start,        *)
(*   SpecJobsFair  SpecJobs with weak fairness of the Node and database    *)
(*                 steps.                                                  *)
(***************************************************************************)
EXTENDS Integers, Sequences, FiniteSets, TLC

(***************************************************************************)
(* Bounds of the model.                                                    *)
(***************************************************************************)
\* largest number of tasks of a batch in SpecGraph
MaxTasks == 3
\* largest total number of dependency entries of a batch in SpecGraph
MaxEdges == 4
\* largest total number of dependency entries of a batch in SpecDfs
MaxDfsEdges == 3
\* number of processTranscript calls in Spec and SpecSeq
NumRequests == 2

\* task ids a batch of SpecGraph may use, and one id that never names a task
TaskIds == {"a", "b", "c"}
DepIds == TaskIds \cup {"x"}

None == "none"

\* an optional value (null | undefined | value): <<>> or <<value>>
Null == <<>>
Some(value) == <<value>>
Get(option) == option[1]

(***************************************************************************)
(* Small helpers on sequences.                                             *)
(***************************************************************************)
Range(s) == {s[i] : i \in DOMAIN s}

\* Array.prototype.indexOf: first index holding v, 0 when absent
\* (JavaScript's -1, shifted by the 1-based indexing of sequences)
IndexOf(s, v) ==
  IF v \in Range(s) THEN CHOOSE i \in DOMAIN s : s[i] = v /\ \A j \in 1..(i-1) : s[j] # v
  ELSE 0

(***************************************************************************)
(* sanitizeTaskDependencies                                                *)
(***************************************************************************)
\* a plausible slip: the filter keeps every dependency id
sanitizeKeepsAll(tasks) == tasks

\* a plausible slip: the filter also drops repeated ids
RECURSIVE Dedup(_)
Dedup(s) ==
  IF s = <<>> THEN <<>>
  ELSE LET front == Dedup(SubSeq(s, 1, Len(s) - 1))
           last == s[Len(s)]
       IN IF last \in Range(front) THEN front ELSE Append(front, last)

sanitizeDedups(tasks) ==
  LET validIds == {tasks[i].id : i \in DOMAIN tasks}
      has(depId) == depId \in validIds
  IN [i \in DOMAIN tasks |->
        [tasks[i] EXCEPT !.dependencies = Dedup(SelectSeq(@, has))]]

sanitizeTaskDependencies(tasks) ==
  LET validIds == {tasks[i].id : i \in DOMAIN tasks}
      has(depId) == depId \in validIds
  IN [i \in DOMAIN tasks |->
        [tasks[i] EXCEPT !.dependencies = SelectSeq(@, has)]]

(***************************************************************************)
(* detectCycles: DFS with WHITE / GRAY / BLACK coloring.                   *)
(***************************************************************************)
WHITE == 0
GRAY == 1
BLACK == 2

\* keys of the adjacency Map, in insertion order (first occurrence of an id)
RECURSIVE adjacencyKeys(_)
adjacencyKeys(tasks) ==
  IF tasks = <<>> THEN <<>>
  ELSE LET front == adjacencyKeys(SubSeq(tasks, 1, Len(tasks) - 1))
           id == tasks[Len(tasks)].id
       IN IF id \in Range(front) THEN front ELSE Append(front, id)

\* the adjacency Map: adjacency.set(task.id, task.dependencies) in task order,
\* so that a later task of the same id overwrites an earlier one
adjacency(tasks) ==
  [id \in {tasks[i].id : i \in DOMAIN tasks} |->
     LET last == CHOOSE i \in DOMAIN tasks :
                   /\ tasks[i].id = id
                   /\ \A j \in DOMAIN tasks : tasks[j].id = id => j <= i
     IN tasks[last].dependencies]

\* a plausible slip: the whole stack is recorded, not only the part from
\* the first occurrence of neighborId
markBackEdgeWholeStack(stack, cycleNodes, neighborId) ==
  cycleNodes \cup Range(stack)

\* a plausible slip: only the node that has the back edge is recorded
markBackEdgeTopOnly(stack, cycleNodes, neighborId) ==
  cycleNodes \cup {stack[Len(stack)]}

\* a plausible slip: the slice starts one position after neighborId
markBackEdgeSkipsStart(stack, cycleNodes, neighborId) ==
  LET startIndex == IndexOf(stack, neighborId)
  IN IF startIndex # 0
     THEN cycleNodes \cup {stack[i] : i \in (startIndex + 1)..Len(stack)}
     ELSE cycleNodes

\* a plausible slip: an index of 0 (here 1, the bottom of the stack) is
\* taken for "not found"
markBackEdgeSkipsRoot(stack, cycleNodes, neighborId) ==
  LET startIndex == IndexOf(stack, neighborId)
  IN IF startIndex > 1
     THEN cycleNodes \cup {stack[i] : i \in startIndex..Len(stack)}
     ELSE cycleNodes

\* back edge: the nodes from the first occurrence of neighborId in the stack
\* up to the current node are added to cycleNodes
markBackEdge(stack, cycleNodes, neighborId) ==
  LET startIndex == IndexOf(stack, neighborId)
  IN IF startIndex # 0
     THEN cycleNodes \cup {stack[i] : i \in startIndex..Len(stack)}
     ELSE cycleNodes

RECURSIVE dfs(_, _, _)
RECURSIVE dfsNeighbors(_, _, _, _)

\* a plausible slip: a dependency id that names no task marks the task that
\* lists it
dfsNeighborsFlagsUnknown(adj, st, id, i) ==
  IF i > Len(adj[id]) THEN st
  ELSE LET neighborId == adj[id][i]
       IN IF neighborId \notin DOMAIN adj
          THEN dfsNeighbors(adj, [st EXCEPT !.cycleNodes = @ \cup {id}],
                            id, i + 1)
          ELSE IF st.colors[neighborId] = WHITE
          THEN dfsNeighbors(adj, dfs(adj, st, neighborId), id, i + 1)
          ELSE IF st.colors[neighborId] = GRAY
          THEN dfsNeighbors(adj,
                 [st EXCEPT !.cycleNodes = markBackEdge(st.stack, @, neighborId)],
                 id, i + 1)
          ELSE dfsNeighbors(adj, st, id, i + 1)

\* the loop  for (const neighborId of neighbors)  from its i-th element on
dfsNeighbors(adj, st, id, i) ==
  IF i > Len(adj[id]) THEN st
  ELSE LET neighborId == adj[id][i]
       IN IF neighborId \notin DOMAIN adj
          THEN dfsNeighbors(adj, st, id, i + 1)
          ELSE IF st.colors[neighborId] = WHITE
          THEN dfsNeighbors(adj, dfs(adj, st, neighborId), id, i + 1)
          ELSE IF st.colors[neighborId] = GRAY
          THEN dfsNeighbors(adj,
                 [st EXCEPT !.cycleNodes = markBackEdge(st.stack, @, neighborId)],
                 id, i + 1)
          ELSE dfsNeighbors(adj, st, id, i + 1)

dfs(adj, st, id) ==
  LET entered == [st EXCEPT !.colors[id] = GRAY, !.stack = Append(@, id)]
      explored == dfsNeighbors(adj, entered, id, 1)
  IN [explored EXCEPT !.colors[id] = BLACK,
                      !.stack = SubSeq(@, 1, Len(@) - 1)]

\* the loop  for (const id of adjacency.keys())  from its k-th key on
RECURSIVE dfsLaunch(_, _, _, _)
dfsLaunch(adj, keys, st, k) ==
  IF k > Len(keys) THEN st
  ELSE IF st.colors[keys[k]] = WHITE
       THEN dfsLaunch(adj, keys, dfs(adj, st, keys[k]), k + 1)
       ELSE dfsLaunch(adj, keys, st, k + 1)

detectCycles(tasks) ==
  LET adj == adjacency(tasks)
      start == [colors |-> [id \in DOMAIN adj |-> WHITE],
                stack |-> <<>>,
                cycleNodes |-> {}]
  IN dfsLaunch(adj, adjacencyKeys(tasks), start, 1).cycleNodes

\* a plausible slip: the tasks of a cycle are moved to the front of the
\* batch and lose the dependency lists that made the cycle
markCyclicTasksErrorsFirst(tasks) ==
  LET cycleIds == detectCycles(tasks)
      inCycle(task) == task.id \in cycleIds
      offCycle(task) == task.id \notin cycleIds
      ordered == SelectSeq(tasks, inCycle) \o SelectSeq(tasks, offCycle)
  IN [i \in DOMAIN ordered |->
        [id |-> ordered[i].id,
         dependencies |-> IF inCycle(ordered[i]) THEN <<>>
                          ELSE ordered[i].dependencies,
         priority |-> ordered[i].priority,
         status |-> IF inCycle(ordered[i]) THEN "error" ELSE "ok"]]

markCyclicTasks(tasks) ==
  LET cycleIds == detectCycles(tasks)
  IN [i \in DOMAIN tasks |->
        [id |-> tasks[i].id,
         dependencies |-> tasks[i].dependencies,
         priority |-> tasks[i].priority,
         status |-> IF tasks[i].id \in cycleIds THEN "error" ELSE "ok"]]

(***************************************************************************)
(* State.                                                                  *)
(***************************************************************************)
VARIABLES
  \* SpecGraph: the batch given to the pure functions and their outputs
  batch, sanitized, marked, phase,
  \* transcript.service.ts: the in-process cache, hash -> TranscriptResult
  transcriptStore,
  \* Postgres: the rows of table "Transcript" and of table "Task"
  dbTranscript, dbTask,
  \* every processTranscript call: where it stands and its local variables
  pc, req,
  \* history: calls of extractTasksFromTranscript and of transcriptStore.set
  \* made by each request, and the requests in the order they started
  extractCalls, cacheSets, startOrder,
  \* history: the batch the LLM answered to each request, and the queries
  \* each request sent to the database
  extracted, dbCalls,
  \* job.service.ts: the maps jobStore and hashToJobId, the microtasks
  \* queued by queueMicrotask, and what the last createTranscriptJob returned
  jobStore, hashToJobId, microtasks, returned,
  \* SpecDfs: detectCycles step by step: its colors, stack and cycleNodes,
  \* the dfs calls that have not returned (each with the position of its
  \* neighbor loop), and the number of keys the launch loop has taken
  dfsState, callStack, launched,
  \* history: the ids in the order dfs was called on them, and in the order
  \* those calls returned
  enterOrder, completeOrder

dfsVars == <<dfsState, callStack, launched, enterOrder, completeOrder>>
graphVars == <<batch, sanitized, marked, phase, dfsVars>>
pipeVars == <<transcriptStore, dbTranscript, dbTask, pc, req,
              extractCalls, cacheSets, startOrder, extracted, dbCalls>>
jobVars == <<jobStore, hashToJobId, microtasks, returned>>
vars == <<batch, sanitized, marked, phase, transcriptStore, dbTranscript,
          dbTask, pc, req, extractCalls, cacheSets, startOrder,
          extracted, dbCalls, jobStore, hashToJobId, microtasks, returned,
          dfsState, callStack, launched, enterOrder, completeOrder>>

(***************************************************************************)
(* SpecGraph: every batch of at most MaxTasks tasks with distinct ids and  *)
(* at most MaxEdges dependency entries in all, in every task order and     *)
(* every dependency order, is sanitized and then marked.                   *)
(***************************************************************************)
PriorityOf(id) ==
  CASE id = "a" -> "low"
    [] id = "b" -> "medium"
    [] OTHER -> "high"

\* the sequences of n distinct task ids
IdOrders(n) ==
  {ids \in [1..n -> TaskIds] : \A i, j \in 1..n : ids[i] = ids[j] => i = j}

\* the ways to give n tasks dependency lists of at most MaxEdges entries in all
RECURSIVE SumTo(_, _)
SumTo(lens, k) == IF k = 0 THEN 0 ELSE lens[k] + SumTo(lens, k - 1)

LengthsOf(n) ==
  {lens \in [1..n -> 0..MaxEdges] : SumTo(lens, n) <= MaxEdges}

\* the batch whose i-th task has id ids[i] and the next lens[i] entries of flat
BuildBatch(ids, lens, flat) ==
  [i \in DOMAIN ids |->
     [id |-> ids[i],
      dependencies |-> [k \in 1..lens[i] |-> flat[SumTo(lens, i - 1) + k]],
      priority |-> PriorityOf(ids[i])]]

Requests == 1..NumRequests
Transcripts == {"t1", "t2"}
Hashes == {"h1", "h2"}
\* the n-th job created takes the n-th id and runs as request n
JobIds == Requests

NoRequest == [transcript |-> None, dbExisting |-> Null, finalTasks |-> <<>>,
              dbCreated |-> Null, result |-> Null, error |-> None]

PipeInit ==
  /\ transcriptStore = [h \in Hashes |-> Null]
  /\ dbTranscript = {}
  /\ dbTask = {}
  /\ pc = [r \in Requests |-> "idle"]
  /\ req = [r \in Requests |-> NoRequest]
  /\ extractCalls = [r \in Requests |-> 0]
  /\ cacheSets = [r \in Requests |-> 0]
  /\ startOrder = <<>>
  /\ extracted = [r \in Requests |-> Null]
  /\ dbCalls = [r \in Requests |-> 0]

\* job.service.ts lines 28-29: both maps start empty, no microtask is queued
JobInit ==
  /\ jobStore = [j \in JobIds |-> Null]
  /\ hashToJobId = [h \in Hashes |-> Null]
  /\ microtasks = <<>>
  /\ returned = Null

\* no traversal is going on
DfsIdle ==
  /\ dfsState = [colors |-> <<>>, stack |-> <<>>, cycleNodes |-> {}]
  /\ callStack = <<>>
  /\ launched = 0
  /\ enterOrder = <<>>
  /\ completeOrder = <<>>

InitGraph ==
  /\ \E n \in 0..MaxTasks :
       \E ids \in IdOrders(n) :
         \E lens \in LengthsOf(n) :
           \E flat \in [1..SumTo(lens, n) -> DepIds] :
             batch = BuildBatch(ids, lens, flat)
  /\ sanitized = <<>>
  /\ marked = <<>>
  /\ phase = "input"
  /\ DfsIdle
  /\ PipeInit
  /\ JobInit

Sanitize ==
  /\ phase = "input"
  /\ sanitized' = sanitizeTaskDependencies(batch)
  /\ phase' = "sanitized"
  /\ UNCHANGED <<batch, marked>>
  /\ UNCHANGED dfsVars
  /\ UNCHANGED pipeVars
  /\ UNCHANGED jobVars

MarkCyclic ==
  /\ phase = "sanitized"
  /\ marked' = markCyclicTasks(sanitized)
  /\ phase' = "marked"
  /\ UNCHANGED <<batch, sanitized>>
  /\ UNCHANGED dfsVars
  /\ UNCHANGED pipeVars
  /\ UNCHANGED jobVars

NextGraph == Sanitize \/ MarkCyclic

SpecGraph == InitGraph /\ [][NextGraph]_vars

(***************************************************************************)
(* SpecDfs: detectCycles step by step, on every batch of at most MaxTasks  *)
(* tasks with distinct ids and at most MaxDfsEdges dependency entries in   *)
(* all.  A step is one turn of the launch loop, one turn of the neighbor   *)
(* loop of the innermost dfs call, or the return of that call.             *)
(* detectCycles uses ids only as Map keys and compares them for equality,  *)
(* so the tasks are named a, b, c in the order of the batch: every batch   *)
(* with distinct ids is one of these up to the names of its tasks.         *)
(***************************************************************************)
DfsIds(n) == SubSeq(<<"a", "b", "c">>, 1, n)

DfsLengthsOf(n) ==
  {lens \in [1..n -> 0..MaxDfsEdges] : SumTo(lens, n) <= MaxDfsEdges}

\* lines 45-68: the adjacency Map is built, every key is WHITE, cycleNodes
\* and stack are empty
InitDfs ==
  /\ \E n \in 0..MaxTasks :
       /\ n <= Cardinality(TaskIds)
       /\ \E lens \in DfsLengthsOf(n) :
            \E flat \in [1..SumTo(lens, n) -> DepIds] :
              batch = BuildBatch(DfsIds(n), lens, flat)
  /\ sanitized = <<>>
  /\ marked = <<>>
  /\ phase = "dfs"
  /\ dfsState = [colors |-> [id \in DOMAIN adjacency(batch) |-> WHITE],
                 stack |-> <<>>,
                 cycleNodes |-> {}]
  /\ callStack = <<>>
  /\ launched = 0
  /\ enterOrder = <<>>
  /\ completeOrder = <<>>
  /\ PipeInit
  /\ JobInit

DfsUnchanged ==
  /\ UNCHANGED <<batch, sanitized, marked, phase>>
  /\ UNCHANGED pipeVars
  /\ UNCHANGED jobVars

\* the frame of the dfs call that is running
TopFrame == callStack[Len(callStack)]

\* the neighbor the running call looks at
TopNeighbor == adjacency(batch)[TopFrame.id][TopFrame.i]

InNeighborLoop ==
  /\ phase = "dfs"
  /\ callStack # <<>>
  /\ TopFrame.i <= Len(adjacency(batch)[TopFrame.id])

\* the neighbor loop of the running call moves on to its next element
NextNeighbor == [callStack EXCEPT ![Len(callStack)].i = @ + 1]

\* lines 76-77, the entry of dfs(id): colors.set(id, GRAY); stack.push(id)
DfsEnter(id) ==
  /\ dfsState' = [dfsState EXCEPT !.colors[id] = GRAY,
                                  !.stack = Append(@, id)]
  /\ enterOrder' = Append(enterOrder, id)

\* lines 115-118: the launch loop takes a key that is WHITE and calls dfs
DfsLaunch ==
  /\ phase = "dfs"
  /\ callStack = <<>>
  /\ launched < Len(adjacencyKeys(batch))
  /\ LET id == adjacencyKeys(batch)[launched + 1]
     IN /\ dfsState.colors[id] = WHITE
        /\ DfsEnter(id)
        /\ callStack' = <<[id |-> id, i |-> 1]>>
  /\ launched' = launched + 1
  /\ UNCHANGED completeOrder
  /\ DfsUnchanged

\* lines 115-116: the launch loop takes a key that is not WHITE
DfsLaunchSkip ==
  /\ phase = "dfs"
  /\ callStack = <<>>
  /\ launched < Len(adjacencyKeys(batch))
  /\ dfsState.colors[adjacencyKeys(batch)[launched + 1]] # WHITE
  /\ launched' = launched + 1
  /\ UNCHANGED <<dfsState, callStack, enterOrder, completeOrder>>
  /\ DfsUnchanged

\* line 83: the neighbor names no task: continue
DfsNeighborUnknown ==
  /\ InNeighborLoop
  /\ TopNeighbor \notin DOMAIN adjacency(batch)
  /\ callStack' = NextNeighbor
  /\ UNCHANGED <<dfsState, launched, enterOrder, completeOrder>>
  /\ DfsUnchanged

\* lines 87-89: the neighbor is WHITE: dfs(neighborId)
DfsTreeEdge ==
  /\ InNeighborLoop
  /\ TopNeighbor \in DOMAIN adjacency(batch)
  /\ dfsState.colors[TopNeighbor] = WHITE
  /\ DfsEnter(TopNeighbor)
  /\ callStack' = Append(NextNeighbor, [id |-> TopNeighbor, i |-> 1])
  /\ UNCHANGED <<launched, completeOrder>>
  /\ DfsUnchanged

\* lines 90-105: the neighbor is GRAY: the stack from its first occurrence
\* on is added to cycleNodes
DfsBackEdge ==
  /\ InNeighborLoop
  /\ TopNeighbor \in DOMAIN adjacency(batch)
  /\ dfsState.colors[TopNeighbor] = GRAY
  /\ dfsState' = [dfsState EXCEPT
                    !.cycleNodes = markBackEdge(dfsState.stack, @, TopNeighbor)]
  /\ callStack' = NextNeighbor
  /\ UNCHANGED <<launched, enterOrder, completeOrder>>
  /\ DfsUnchanged

\* a plausible slip: a neighbor that is BLACK is entered again
DfsNeighborDoneReenters ==
  /\ InNeighborLoop
  /\ TopNeighbor \in DOMAIN adjacency(batch)
  /\ dfsState.colors[TopNeighbor] = BLACK
  /\ DfsEnter(TopNeighbor)
  /\ callStack' = Append(NextNeighbor, [id |-> TopNeighbor, i |-> 1])
  /\ UNCHANGED <<launched, completeOrder>>
  /\ DfsUnchanged

\* line 106: the neighbor is BLACK: nothing to do
DfsNeighborDone ==
  /\ InNeighborLoop
  /\ TopNeighbor \in DOMAIN adjacency(batch)
  /\ dfsState.colors[TopNeighbor] = BLACK
  /\ callStack' = NextNeighbor
  /\ UNCHANGED <<dfsState, launched, enterOrder, completeOrder>>
  /\ DfsUnchanged

\* a plausible slip: the id is not popped from the stack when dfs returns
DfsReturnNoPop ==
  /\ phase = "dfs"
  /\ callStack # <<>>
  /\ TopFrame.i > Len(adjacency(batch)[TopFrame.id])
  /\ dfsState' = [dfsState EXCEPT !.colors[TopFrame.id] = BLACK]
  /\ callStack' = SubSeq(callStack, 1, Len(callStack) - 1)
  /\ completeOrder' = Append(completeOrder, TopFrame.id)
  /\ UNCHANGED <<launched, enterOrder>>
  /\ DfsUnchanged

\* lines 110-111: the neighbor loop is over: colors.set(id, BLACK);
\* stack.pop(); the call returns
DfsReturn ==
  /\ phase = "dfs"
  /\ callStack # <<>>
  /\ TopFrame.i > Len(adjacency(batch)[TopFrame.id])
  /\ dfsState' = [dfsState EXCEPT
                    !.colors[TopFrame.id] = BLACK,
                    !.stack = SubSeq(@, 1, Len(@) - 1)]
  /\ callStack' = SubSeq(callStack, 1, Len(callStack) - 1)
  /\ completeOrder' = Append(completeOrder, TopFrame.id)
  /\ UNCHANGED <<launched, enterOrder>>
  /\ DfsUnchanged

NextDfs ==
  \/ DfsLaunch
  \/ DfsLaunchSkip
  \/ DfsNeighborUnknown
  \/ DfsTreeEdge
  \/ DfsBackEdge
  \/ DfsNeighborDone
  \/ DfsReturn

\* detectCycles is synchronous code: once called it runs on, step after
\* step, until it returns
SpecDfs == InitDfs /\ [][NextDfs]_vars /\ WF_vars(NextDfs)

(***************************************************************************)
(* processTranscript: the synchronous parts.                               *)
(***************************************************************************)
\* SHA-256 of the transcript text: distinct texts get distinct digests
hashTranscript(transcript) ==
  CASE transcript = "t1" -> "h1"
    [] transcript = "t2" -> "h2"

Priorities == {"low", "medium", "high"}

\* what the LLM may answer: MeetingTask[] parsed from its JSON, where
\* dependencies may be absent (Null) and nothing is validated yet
RawBatches ==
  { <<>>,
    \* a cycle a -> b -> a and a dependency on an id that names no task
    << [id |-> "a", description |-> "da", priority |-> "high",
        dependencies |-> Some(<<"b">>)],
       [id |-> "b", description |-> "db", priority |-> "low",
        dependencies |-> Some(<<"a", "x">>)] >>,
    \* no cycle, one task without a dependencies field
    << [id |-> "a", description |-> "da2", priority |-> "medium",
        dependencies |-> Null],
       [id |-> "b", description |-> "db2", priority |-> "low",
        dependencies |-> Some(<<"a">>)] >>,
    \* a priority outside the enum
    << [id |-> "a", description |-> "da", priority |-> "low",
        dependencies |-> Some(<<>>)],
       [id |-> "b", description |-> "db", priority |-> "urgent",
        dependencies |-> Some(<<"a">>)] >>,
    \* the same id twice
    << [id |-> "a", description |-> "da", priority |-> "low",
        dependencies |-> Some(<<"a">>)],
       [id |-> "a", description |-> "da3", priority |-> "high",
        dependencies |-> Some(<<>>)] >>,
    \* a case variant of an enum value
    << [id |-> "a", description |-> "da", priority |-> "High",
        dependencies |-> Some(<<>>)] >> }

\* the answers of the sequential runs: those above, and a batch with two
\* cycles that share an edge, a -> b -> a and a -> c -> b -> a
RawBatchesSeq ==
  RawBatches \cup
  { << [id |-> "a", description |-> "da", priority |-> "low",
        dependencies |-> Some(<<"b", "c">>)],
       [id |-> "b", description |-> "db", priority |-> "low",
        dependencies |-> Some(<<"a">>)],
       [id |-> "c", description |-> "dc", priority |-> "low",
        dependencies |-> Some(<<"b">>)] >> }

\* aiTaskSchema.parse throws: validateTasksWithZod has no value
ZodError == Null

\* aiTaskSchema: id a string, dependencies an array of strings, priority in
\* the enum; ids and dependency entries of the model are all strings
aiTaskSchemaAccepts(candidate) == candidate.priority \in Priorities

\* a plausible slip: a task the schema rejects is skipped, the others are kept
validateSkipsInvalid(rawTasks) ==
  LET candidate(task) ==
        [id |-> task.id,
         dependencies |-> IF task.dependencies = Null THEN <<>>
                          ELSE Get(task.dependencies),
         priority |-> task.priority]
      candidates == [i \in DOMAIN rawTasks |-> candidate(rawTasks[i])]
  IN Some(SelectSeq(candidates, aiTaskSchemaAccepts))

validateTasksWithZod(rawTasks) ==
  LET candidate(task) ==
        [id |-> task.id,
         dependencies |-> IF task.dependencies = Null THEN <<>>
                          ELSE Get(task.dependencies),
         priority |-> task.priority]
  IN IF \A i \in DOMAIN rawTasks : aiTaskSchemaAccepts(candidate(rawTasks[i]))
     THEN Some([i \in DOMAIN rawTasks |-> candidate(rawTasks[i])])
     ELSE ZodError

\* step 6: sanitize {id, dependencies} and copy the dependencies back, each
\* task taking those of the first sanitized task of its id (Array.find)
sanitizedTasksOf(validatedTasks) ==
  LET sanitizedForGraph ==
        sanitizeTaskDependencies(
          [i \in DOMAIN validatedTasks |->
             [id |-> validatedTasks[i].id,
              dependencies |-> validatedTasks[i].dependencies]])
      find(id) == CHOOSE i \in DOMAIN sanitizedForGraph :
                    /\ sanitizedForGraph[i].id = id
                    /\ \A j \in 1..(i - 1) : sanitizedForGraph[j].id # id
  IN [i \in DOMAIN validatedTasks |->
        [validatedTasks[i] EXCEPT
           !.dependencies = sanitizedForGraph[find(validatedTasks[i].id)].dependencies]]

\* descriptionById.set in rawTasks order (the last task of an id wins),
\* then description: descriptionById.get(t.id) ?? ""
mergeDescriptions(tasksWithStatus, rawTasks) ==
  LET descriptionById(id) ==
        IF \E i \in DOMAIN rawTasks : rawTasks[i].id = id
        THEN rawTasks[CHOOSE i \in DOMAIN rawTasks :
                        /\ rawTasks[i].id = id
                        /\ \A j \in DOMAIN rawTasks : rawTasks[j].id = id => j <= i].description
        ELSE ""
  IN [i \in DOMAIN tasksWithStatus |->
        [id |-> tasksWithStatus[i].id,
         dependencies |-> tasksWithStatus[i].dependencies,
         priority |-> tasksWithStatus[i].priority,
         status |-> tasksWithStatus[i].status,
         description |-> descriptionById(tasksWithStatus[i].id)]]

\* steps 6 to 8 on a validated batch
finalTasksOf(validatedTasks, rawTasks) ==
  mergeDescriptions(markCyclicTasks(sanitizedTasksOf(validatedTasks)), rawTasks)

(***************************************************************************)
(* Postgres through Prisma.                                                *)
(***************************************************************************)
\* "ok" | "error" to the TaskStatus enum, and back
toTaskStatus(status) == IF status = "error" THEN "error" ELSE "ready"
fromTaskStatus(status) == IF status = "error" THEN "error" ELSE "ok"

TaskRow(transcriptId, task) ==
  [transcriptId |-> transcriptId,
   id |-> task.id,
   description |-> task.description,
   priority |-> task.priority,
   dependencies |-> task.dependencies,
   status |-> toTaskStatus(task.status)]

TaskRowsOf(taskRows, transcriptId) ==
  {row \in taskRows : row.transcriptId = transcriptId}

\* the orders in which a query without ORDER BY may return a set of rows
RowOrders(rows) ==
  {s \in [1..Cardinality(rows) -> rows] :
     \A i, j \in 1..Cardinality(rows) : s[i] = s[j] => i = j}

\* a plausible slip: no unique index on "Transcript"("hash")
prismaCreateNoUniqueHash(transcripts, taskRows, newId, content, hash, tasks) ==
  IF \E i, j \in DOMAIN tasks : i # j /\ tasks[i].id = tasks[j].id
  THEN [ok |-> FALSE, transcripts |-> transcripts, taskRows |-> taskRows]
  ELSE [ok |-> TRUE,
        transcripts |-> transcripts \cup
          {[id |-> newId, content |-> content, hash |-> hash,
            createdAt |-> Cardinality(transcripts) + 1]},
        taskRows |-> taskRows \cup {TaskRow(newId, tasks[i]) : i \in DOMAIN tasks}]

\* a plausible slip: the transcript row and the task rows are written by two
\* separate statements, and a failure of the second leaves the first
prismaCreateNotAtomic(transcripts, taskRows, newId, content, hash, tasks) ==
  IF \E row \in transcripts : row.hash = hash
  THEN [ok |-> FALSE, transcripts |-> transcripts, taskRows |-> taskRows]
  ELSE LET withRow == transcripts \cup
             {[id |-> newId, content |-> content, hash |-> hash,
               createdAt |-> Cardinality(transcripts) + 1]}
       IN IF \E i, j \in DOMAIN tasks : i # j /\ tasks[i].id = tasks[j].id
          THEN [ok |-> FALSE, transcripts |-> withRow, taskRows |-> taskRows]
          ELSE [ok |-> TRUE, transcripts |-> withRow,
                taskRows |-> taskRows \cup
                  {TaskRow(newId, tasks[i]) : i \in DOMAIN tasks}]

\* a plausible slip: only the first task of the batch is written
prismaCreateFirstTaskOnly(transcripts, taskRows, newId, content, hash, tasks) ==
  IF \/ \E row \in transcripts : row.hash = hash
     \/ \E i, j \in DOMAIN tasks : i # j /\ tasks[i].id = tasks[j].id
  THEN [ok |-> FALSE, transcripts |-> transcripts, taskRows |-> taskRows]
  ELSE [ok |-> TRUE,
        transcripts |-> transcripts \cup
          {[id |-> newId, content |-> content, hash |-> hash,
            createdAt |-> Cardinality(transcripts) + 1]},
        taskRows |-> taskRows \cup
          {TaskRow(newId, tasks[i]) : i \in DOMAIN tasks \cap {1}}]

\* a plausible slip: the primary key of "Task" is "id" alone, as it was
\* before migration 20260205_task_composite_pk
prismaCreateGlobalTaskId(transcripts, taskRows, newId, content, hash, tasks) ==
  IF \/ \E row \in transcripts : row.hash = hash
     \/ \E i, j \in DOMAIN tasks : i # j /\ tasks[i].id = tasks[j].id
     \/ \E i \in DOMAIN tasks : \E row \in taskRows : row.id = tasks[i].id
  THEN [ok |-> FALSE, transcripts |-> transcripts, taskRows |-> taskRows]
  ELSE [ok |-> TRUE,
        transcripts |-> transcripts \cup
          {[id |-> newId, content |-> content, hash |-> hash,
            createdAt |-> Cardinality(transcripts) + 1]},
        taskRows |-> taskRows \cup {TaskRow(newId, tasks[i]) : i \in DOMAIN tasks}]

\* prisma.transcript.create with nested tasks.create: one transaction that
\* inserts the transcript row and every task row, or nothing at all when
\* Transcript_hash_key (unique hash) or Task_pkey (transcriptId, id) rejects
\* a row.  createdAt is DEFAULT CURRENT_TIMESTAMP, a logical time here.
prismaCreate(transcripts, taskRows, newId, content, hash, tasks) ==
  IF \/ \E row \in transcripts : row.hash = hash
     \/ \E i, j \in DOMAIN tasks : i # j /\ tasks[i].id = tasks[j].id
  THEN [ok |-> FALSE, transcripts |-> transcripts, taskRows |-> taskRows]
  ELSE [ok |-> TRUE,
        transcripts |-> transcripts \cup
          {[id |-> newId, content |-> content, hash |-> hash,
            createdAt |-> Cardinality(transcripts) + 1]},
        taskRows |-> taskRows \cup {TaskRow(newId, tasks[i]) : i \in DOMAIN tasks}]

\* what findUnique / create return with include: { tasks: true }
RecordOf(row, order) ==
  [hash |-> row.hash, content |-> row.content, createdAt |-> row.createdAt,
   tasks |-> order]

\* a database record translated into the TranscriptResult shape
toTranscriptResult(record) ==
  [hash |-> record.hash,
   transcript |-> record.content,
   createdAt |-> record.createdAt,
   tasks |-> [i \in DOMAIN record.tasks |->
                [id |-> record.tasks[i].id,
                 dependencies |-> record.tasks[i].dependencies,
                 priority |-> record.tasks[i].priority,
                 description |-> record.tasks[i].description,
                 status |-> fromTaskStatus(record.tasks[i].status)]]]

(***************************************************************************)
(* processTranscript as the steps between its awaits.                      *)
(*   idle -> findUnique -> findReturned -> extracting -> creating          *)
(*        -> createReturned -> done,  or failed from any await             *)
(***************************************************************************)
GraphIdle ==
  /\ batch = <<>> /\ sanitized = <<>> /\ marked = <<>> /\ phase = "off"
  /\ DfsIdle

Init == GraphIdle /\ PipeInit /\ JobInit

HashOf(r) == hashTranscript(req[r].transcript)

Finish(r, result) ==
  /\ pc' = [pc EXCEPT ![r] = "done"]
  /\ req' = [req EXCEPT ![r].result = Some(result),
                        ![r].dbExisting = Null, ![r].dbCreated = Null]

Fail(r, error) ==
  /\ pc' = [pc EXCEPT ![r] = "failed"]
  /\ req' = [req EXCEPT ![r].error = error,
                        ![r].dbExisting = Null, ![r].dbCreated = Null]

\* a plausible slip: the cache is not consulted
StartSkipsCache(r, transcript) ==
  /\ pc[r] = "idle"
  /\ startOrder' = Append(startOrder, r)
  /\ pc' = [pc EXCEPT ![r] = "findUnique"]
  /\ req' = [req EXCEPT ![r].transcript = transcript]
  /\ dbCalls' = [dbCalls EXCEPT ![r] = @ + 1]
  /\ UNCHANGED <<transcriptStore, dbTranscript, dbTask, extractCalls,
                 cacheSets, extracted>>
  /\ UNCHANGED graphVars
  /\ UNCHANGED jobVars

\* lines 108-122: hash, cache lookup, and on a miss the findUnique query;
\* the part of processTranscript that runs inside its caller's turn
processTranscriptCall(r, transcript) ==
  /\ pc[r] = "idle"
  /\ startOrder' = Append(startOrder, r)
  /\ LET hash == hashTranscript(transcript)
         existing == transcriptStore[hash]
     IN IF existing # Null
        THEN /\ pc' = [pc EXCEPT ![r] = "done"]
             /\ req' = [req EXCEPT ![r].transcript = transcript,
                                   ![r].result = existing]
             /\ UNCHANGED dbCalls
        ELSE /\ pc' = [pc EXCEPT ![r] = "findUnique"]
             /\ req' = [req EXCEPT ![r].transcript = transcript]
             /\ dbCalls' = [dbCalls EXCEPT ![r] = @ + 1]
  /\ UNCHANGED <<transcriptStore, dbTranscript, dbTask, extractCalls,
                 cacheSets, extracted>>
  /\ UNCHANGED graphVars

\* POST /transcripts: the route calls processTranscript
Start(r, transcript) ==
  /\ processTranscriptCall(r, transcript)
  /\ UNCHANGED jobVars

\* the database runs findUnique({ where: { hash }, include: { tasks: true } })
FindUniqueExec(r) ==
  /\ pc[r] = "findUnique"
  /\ LET rows == {row \in dbTranscript : row.hash = HashOf(r)}
     IN IF rows = {}
        THEN req' = [req EXCEPT ![r].dbExisting = Null]
        ELSE \E row \in rows :
               \E order \in RowOrders(TaskRowsOf(dbTask, row.id)) :
                 req' = [req EXCEPT ![r].dbExisting = Some(RecordOf(row, order))]
  /\ pc' = [pc EXCEPT ![r] = "findReturned"]
  /\ UNCHANGED <<transcriptStore, dbTranscript, dbTask, extractCalls,
                 cacheSets, startOrder, extracted, dbCalls>>
  /\ UNCHANGED graphVars
  /\ UNCHANGED jobVars

\* a plausible slip: the record the query returned is not looked at
AfterFindIgnoresRecord(r) ==
  /\ pc[r] = "findReturned"
  /\ pc' = [pc EXCEPT ![r] = "extracting"]
  /\ extractCalls' = [extractCalls EXCEPT ![r] = @ + 1]
  /\ UNCHANGED <<req, transcriptStore, cacheSets>>
  /\ UNCHANGED <<dbTranscript, dbTask, startOrder, extracted, dbCalls>>
  /\ UNCHANGED graphVars
  /\ UNCHANGED jobVars

\* a plausible slip: the record found is cached and returned as the database
\* gave it, with the TaskStatus values ready / error
AfterFindCachesUntranslated(r) ==
  /\ pc[r] = "findReturned"
  /\ IF req[r].dbExisting # Null
     THEN LET record == Get(req[r].dbExisting)
              mapped == [hash |-> record.hash, transcript |-> record.content,
                         createdAt |-> record.createdAt,
                         tasks |-> [i \in DOMAIN record.tasks |->
                           [id |-> record.tasks[i].id,
                            dependencies |-> record.tasks[i].dependencies,
                            priority |-> record.tasks[i].priority,
                            description |-> record.tasks[i].description,
                            status |-> record.tasks[i].status]]]
          IN /\ transcriptStore' = [transcriptStore EXCEPT ![HashOf(r)] = Some(mapped)]
             /\ cacheSets' = [cacheSets EXCEPT ![r] = @ + 1]
             /\ Finish(r, mapped)
             /\ UNCHANGED extractCalls
     ELSE /\ pc' = [pc EXCEPT ![r] = "extracting"]
          /\ extractCalls' = [extractCalls EXCEPT ![r] = @ + 1]
          /\ UNCHANGED <<req, transcriptStore, cacheSets>>
  /\ UNCHANGED <<dbTranscript, dbTask, startOrder, extracted, dbCalls>>
  /\ UNCHANGED graphVars
  /\ UNCHANGED jobVars

\* a plausible slip: every task of a record found is given status ok
AfterFindStatusAllOk(r) ==
  /\ pc[r] = "findReturned"
  /\ IF req[r].dbExisting # Null
     THEN LET record == Get(req[r].dbExisting)
              mapped == [hash |-> record.hash, transcript |-> record.content,
                         createdAt |-> record.createdAt,
                         tasks |-> [i \in DOMAIN record.tasks |->
                           [id |-> record.tasks[i].id,
                            dependencies |-> record.tasks[i].dependencies,
                            priority |-> record.tasks[i].priority,
                            description |-> record.tasks[i].description,
                            status |-> "ok"]]]
          IN /\ transcriptStore' = [transcriptStore EXCEPT ![HashOf(r)] = Some(mapped)]
             /\ cacheSets' = [cacheSets EXCEPT ![r] = @ + 1]
             /\ Finish(r, mapped)
             /\ UNCHANGED extractCalls
     ELSE /\ pc' = [pc EXCEPT ![r] = "extracting"]
          /\ extractCalls' = [extractCalls EXCEPT ![r] = @ + 1]
          /\ UNCHANGED <<req, transcriptStore, cacheSets>>
  /\ UNCHANGED <<dbTranscript, dbTask, startOrder, extracted, dbCalls>>
  /\ UNCHANGED graphVars
  /\ UNCHANGED jobVars

\* lines 124-149: a record found is mapped, cached and returned; otherwise
\* extractTasksFromTranscript is called
AfterFind(r) ==
  /\ pc[r] = "findReturned"
  /\ IF req[r].dbExisting # Null
     THEN LET mapped == toTranscriptResult(Get(req[r].dbExisting))
          IN /\ transcriptStore' = [transcriptStore EXCEPT ![HashOf(r)] = Some(mapped)]
             /\ cacheSets' = [cacheSets EXCEPT ![r] = @ + 1]
             /\ Finish(r, mapped)
             /\ UNCHANGED extractCalls
     ELSE /\ pc' = [pc EXCEPT ![r] = "extracting"]
          /\ extractCalls' = [extractCalls EXCEPT ![r] = @ + 1]
          /\ UNCHANGED <<req, transcriptStore, cacheSets>>
  /\ UNCHANGED <<dbTranscript, dbTask, startOrder, extracted, dbCalls>>
  /\ UNCHANGED graphVars
  /\ UNCHANGED jobVars

\* the LLM call fails: HTTP error, no content, JSON that does not parse
ExtractFails(r) ==
  /\ pc[r] = "extracting"
  /\ Fail(r, "ProviderError")
  /\ UNCHANGED <<transcriptStore, dbTranscript, dbTask, extractCalls,
                 cacheSets, startOrder, extracted, dbCalls>>
  /\ UNCHANGED graphVars
  /\ UNCHANGED jobVars

\* a plausible slip: the result is cached as soon as it is computed, before
\* it is persisted
ExtractReturnsCachesEarly(r, rawTasks) ==
  /\ pc[r] = "extracting"
  /\ LET validated == validateTasksWithZod(rawTasks)
     IN IF validated = ZodError
        THEN /\ Fail(r, "ValidationError")
             /\ UNCHANGED <<transcriptStore, cacheSets, dbCalls>>
        ELSE LET finalTasks == finalTasksOf(Get(validated), rawTasks)
             IN /\ pc' = [pc EXCEPT ![r] = "creating"]
                /\ req' = [req EXCEPT ![r].finalTasks = finalTasks]
                /\ transcriptStore' =
                     [transcriptStore EXCEPT ![HashOf(r)] =
                        Some([hash |-> HashOf(r),
                              transcript |-> req[r].transcript,
                              createdAt |-> Cardinality(dbTranscript) + 1,
                              tasks |-> finalTasks])]
                /\ cacheSets' = [cacheSets EXCEPT ![r] = @ + 1]
                /\ dbCalls' = [dbCalls EXCEPT ![r] = @ + 1]
  /\ extracted' = [extracted EXCEPT ![r] = Some(rawTasks)]
  /\ UNCHANGED <<dbTranscript, dbTask, extractCalls, startOrder>>
  /\ UNCHANGED graphVars
  /\ UNCHANGED jobVars

\* lines 149-198: the LLM answers; validate, sanitize, mark, merge, and
\* issue prisma.transcript.create
ExtractReturns(r, rawTasks) ==
  /\ pc[r] = "extracting"
  /\ LET validated == validateTasksWithZod(rawTasks)
     IN IF validated = ZodError
        THEN /\ Fail(r, "ValidationError")
             /\ UNCHANGED dbCalls
        ELSE /\ pc' = [pc EXCEPT ![r] = "creating"]
             /\ req' = [req EXCEPT
                          ![r].finalTasks = finalTasksOf(Get(validated), rawTasks)]
             /\ dbCalls' = [dbCalls EXCEPT ![r] = @ + 1]
  /\ extracted' = [extracted EXCEPT ![r] = Some(rawTasks)]
  /\ UNCHANGED <<transcriptStore, dbTranscript, dbTask, extractCalls,
                 cacheSets, startOrder>>
  /\ UNCHANGED graphVars
  /\ UNCHANGED jobVars

\* the database runs the nested create; the new row's uuid is the request's
\* number, which no other create uses
CreateExec(r) ==
  /\ pc[r] = "creating"
  /\ LET out == prismaCreate(dbTranscript, dbTask, r, req[r].transcript,
                             HashOf(r), req[r].finalTasks)
     IN /\ dbTranscript' = out.transcripts
        /\ dbTask' = out.taskRows
        /\ IF out.ok
           THEN /\ pc' = [pc EXCEPT ![r] = "createReturned"]
                /\ \E row \in {w \in out.transcripts : w.id = r} :
                     \E order \in RowOrders(TaskRowsOf(out.taskRows, r)) :
                       req' = [req EXCEPT ![r].dbCreated = Some(RecordOf(row, order))]
           ELSE Fail(r, "PersistenceError")
  /\ UNCHANGED <<transcriptStore, extractCalls, cacheSets, startOrder,
                 extracted, dbCalls>>
  /\ UNCHANGED graphVars
  /\ UNCHANGED jobVars

\* a read or write the database cannot serve (connection lost, timeout)
DbUnavailable(r) ==
  /\ pc[r] \in {"findUnique", "creating"}
  /\ Fail(r, "PersistenceError")
  /\ UNCHANGED <<transcriptStore, dbTranscript, dbTask, extractCalls,
                 cacheSets, startOrder, extracted, dbCalls>>
  /\ UNCHANGED graphVars
  /\ UNCHANGED jobVars

\* lines 200-217: map the created record, cache it, return it
AfterCreate(r) ==
  /\ pc[r] = "createReturned"
  /\ LET result == toTranscriptResult(Get(req[r].dbCreated))
     IN /\ transcriptStore' = [transcriptStore EXCEPT ![HashOf(r)] = Some(result)]
        /\ Finish(r, result)
  /\ cacheSets' = [cacheSets EXCEPT ![r] = @ + 1]
  /\ UNCHANGED <<dbTranscript, dbTask, extractCalls, startOrder,
                 extracted, dbCalls>>
  /\ UNCHANGED graphVars
  /\ UNCHANGED jobVars

Next ==
  \E r \in Requests :
    \/ \E transcript \in Transcripts : Start(r, transcript)
    \/ FindUniqueExec(r)
    \/ AfterFind(r)
    \/ ExtractFails(r)
    \/ \E rawTasks \in RawBatches : ExtractReturns(r, rawTasks)
    \/ CreateExec(r)
    \/ DbUnavailable(r)
    \/ AfterCreate(r)

Spec == Init /\ [][Next]_vars

\* requests issued one after the other: a call starts only when no other
\* call is between its first and its last step
NoneInFlight == \A q \in Requests : pc[q] \in {"idle", "done", "failed"}

StartSeq(r, transcript) == NoneInFlight /\ Start(r, transcript)

NextSeq ==
  \E r \in Requests :
    \/ \E transcript \in Transcripts : StartSeq(r, transcript)
    \/ FindUniqueExec(r)
    \/ AfterFind(r)
    \/ ExtractFails(r)
    \/ \E rawTasks \in RawBatchesSeq : ExtractReturns(r, rawTasks)
    \/ CreateExec(r)
    \/ DbUnavailable(r)
    \/ AfterCreate(r)

SpecSeq == Init /\ [][NextSeq]_vars

\* the process is restarted while no call is running: the Map created at
\* line 35 is empty again, the database keeps its rows
Restart ==
  /\ NoneInFlight
  /\ \E hash \in Hashes : transcriptStore[hash] # Null
  /\ transcriptStore' = [hash \in Hashes |-> Null]
  /\ UNCHANGED <<dbTranscript, dbTask, pc, req, extractCalls, cacheSets,
                 startOrder, extracted, dbCalls>>
  /\ UNCHANGED graphVars
  /\ UNCHANGED jobVars

NextRestart == NextSeq \/ Restart

\* sequential requests with restarts of the process between them
SpecRestart == Init /\ [][NextRestart]_vars

(***************************************************************************)
(* job.service.ts: createTranscriptJob and runJob.  The job created n-th   *)
(* has id n and its runJob is the processTranscript call of request n.     *)
(* createdAt and updatedAt are not modelled: no code reads them.           *)
(***************************************************************************)
NewJob(id, hash, transcript) ==
  [id |-> id, hash |-> hash, transcript |-> transcript, status |-> "pending",
   result |-> Null, error |-> None]

\* a plausible slip: hashToJobId is not consulted
createTranscriptJobNoLookup(transcript) ==
  LET hash == hashTranscript(transcript)
  IN \E id \in JobIds :
       /\ jobStore[id] = Null
       /\ \A k \in JobIds : jobStore[k] = Null => id <= k
       /\ jobStore' = [jobStore EXCEPT ![id] = Some(NewJob(id, hash, transcript))]
       /\ hashToJobId' = [hashToJobId EXCEPT ![hash] = Some(id)]
       /\ microtasks' = Append(microtasks, [jobId |-> id, transcript |-> transcript])
       /\ returned' = Some(NewJob(id, hash, transcript))
       /\ UNCHANGED graphVars
       /\ UNCHANGED pipeVars

\* a plausible slip: only a job that has not ended yet is returned, a
\* transcript whose job has ended gets a new job
createTranscriptJobOnlyActive(transcript) ==
  LET hash == hashTranscript(transcript)
      existingJobId == hashToJobId[hash]
  IN /\ IF /\ existingJobId # Null
           /\ jobStore[Get(existingJobId)] # Null
           /\ Get(jobStore[Get(existingJobId)]).status \in {"pending", "processing"}
        THEN /\ returned' = jobStore[Get(existingJobId)]
             /\ UNCHANGED <<jobStore, hashToJobId, microtasks>>
        ELSE \E id \in JobIds :
               /\ jobStore[id] = Null
               /\ \A k \in JobIds : jobStore[k] = Null => id <= k
               /\ jobStore' = [jobStore EXCEPT
                                 ![id] = Some(NewJob(id, hash, transcript))]
               /\ hashToJobId' = [hashToJobId EXCEPT ![hash] = Some(id)]
               /\ microtasks' = Append(microtasks,
                                       [jobId |-> id, transcript |-> transcript])
               /\ returned' = Some(NewJob(id, hash, transcript))
     /\ UNCHANGED graphVars
     /\ UNCHANGED pipeVars

\* a plausible slip: a job that failed is replaced by a new job
createTranscriptJobRetriesFailed(transcript) ==
  LET hash == hashTranscript(transcript)
      existingJobId == hashToJobId[hash]
  IN /\ IF /\ existingJobId # Null
           /\ jobStore[Get(existingJobId)] # Null
           /\ Get(jobStore[Get(existingJobId)]).status # "error"
        THEN /\ returned' = jobStore[Get(existingJobId)]
             /\ UNCHANGED <<jobStore, hashToJobId, microtasks>>
        ELSE \E id \in JobIds :
               /\ jobStore[id] = Null
               /\ \A k \in JobIds : jobStore[k] = Null => id <= k
               /\ jobStore' = [jobStore EXCEPT
                                 ![id] = Some(NewJob(id, hash, transcript))]
               /\ hashToJobId' = [hashToJobId EXCEPT ![hash] = Some(id)]
               /\ microtasks' = Append(microtasks,
                                       [jobId |-> id, transcript |-> transcript])
               /\ returned' = Some(NewJob(id, hash, transcript))
     /\ UNCHANGED graphVars
     /\ UNCHANGED pipeVars

\* lines 64-91: return the job of the hash, or create a pending job, index
\* it by its hash and queue its runJob as a microtask
createTranscriptJob(transcript) ==
  LET hash == hashTranscript(transcript)
      existingJobId == hashToJobId[hash]
  IN /\ IF existingJobId # Null /\ jobStore[Get(existingJobId)] # Null
        THEN /\ returned' = jobStore[Get(existingJobId)]
             /\ UNCHANGED <<jobStore, hashToJobId, microtasks>>
        ELSE \E id \in JobIds :
               /\ jobStore[id] = Null
               /\ \A k \in JobIds : jobStore[k] = Null => id <= k
               /\ jobStore' = [jobStore EXCEPT
                                 ![id] = Some(NewJob(id, hash, transcript))]
               /\ hashToJobId' = [hashToJobId EXCEPT ![hash] = Some(id)]
               /\ microtasks' = Append(microtasks,
                                       [jobId |-> id, transcript |-> transcript])
               /\ returned' = Some(NewJob(id, hash, transcript))
     /\ UNCHANGED graphVars
     /\ UNCHANGED pipeVars

\* lines 36-44: the queued microtask runs: the job becomes processing and
\* processTranscript runs up to its first await
RunJob(jobId) ==
  /\ microtasks # <<>>
  /\ Head(microtasks).jobId = jobId
  /\ microtasks' = Tail(microtasks)
  /\ IF jobStore[jobId] = Null
     THEN /\ UNCHANGED jobStore
          /\ UNCHANGED graphVars
          /\ UNCHANGED pipeVars
     ELSE /\ jobStore' = [jobStore EXCEPT
                            ![jobId] = Some([Get(@) EXCEPT !.status = "processing"])]
          /\ processTranscriptCall(jobId, Head(microtasks).transcript)
  /\ UNCHANGED <<hashToJobId, returned>>

\* the promise of processTranscript is settled and runJob has not resumed
Settled(jobId) ==
  /\ jobStore[jobId] # Null
  /\ Get(jobStore[jobId]).status = "processing"
  /\ pc[jobId] \in {"done", "failed"}

\* a plausible slip: a job whose processing failed is put back to pending
RunJobSettleRetries(jobId) ==
  /\ Settled(jobId)
  /\ jobStore' = [jobStore EXCEPT ![jobId] =
       IF pc[jobId] = "done"
       THEN Some([Get(@) EXCEPT !.status = "done",
                                !.result = req[jobId].result,
                                !.error = None])
       ELSE Some([Get(@) EXCEPT !.status = "pending",
                                !.error = req[jobId].error])]
  /\ UNCHANGED <<hashToJobId, microtasks, returned>>
  /\ UNCHANGED graphVars
  /\ UNCHANGED pipeVars

\* a plausible slip: the message of the error is not stored in the job
RunJobSettleDropsMessage(jobId) ==
  /\ Settled(jobId)
  /\ jobStore' = [jobStore EXCEPT ![jobId] =
       IF pc[jobId] = "done"
       THEN Some([Get(@) EXCEPT !.status = "done",
                                !.result = req[jobId].result,
                                !.error = None])
       ELSE Some([Get(@) EXCEPT !.status = "error"])]
  /\ UNCHANGED <<hashToJobId, microtasks, returned>>
  /\ UNCHANGED graphVars
  /\ UNCHANGED pipeVars

\* lines 45-56: runJob resumes after its await with the result or the error
RunJobSettle(jobId) ==
  /\ Settled(jobId)
  /\ jobStore' = [jobStore EXCEPT ![jobId] =
       IF pc[jobId] = "done"
       THEN Some([Get(@) EXCEPT !.status = "done",
                                !.result = req[jobId].result,
                                !.error = None])
       ELSE Some([Get(@) EXCEPT !.status = "error",
                                !.error = req[jobId].error])]
  /\ UNCHANGED <<hashToJobId, microtasks, returned>>
  /\ UNCHANGED graphVars
  /\ UNCHANGED pipeVars

\* a microtask or a continuation of a settled promise is waiting: Node runs
\* these before it takes the next request or the next I/O callback
MicrotaskReady == microtasks # <<>> \/ \E jobId \in JobIds : Settled(jobId)

\* POST /jobs with either transcript, and the steps of the requests the
\* jobs started
NextJobs ==
  \/ \E jobId \in JobIds : RunJob(jobId)
  \/ \E jobId \in JobIds : RunJobSettle(jobId)
  \/ \E transcript \in Transcripts :
       ~MicrotaskReady /\ createTranscriptJob(transcript)
  \/ \E r \in Requests :
       \/ ~MicrotaskReady /\ FindUniqueExec(r)
       \/ ~MicrotaskReady /\ AfterFind(r)
       \/ ~MicrotaskReady /\ ExtractFails(r)
       \/ \E rawTasks \in RawBatches :
            ~MicrotaskReady /\ ExtractReturns(r, rawTasks)
       \/ ~MicrotaskReady /\ CreateExec(r)
       \/ ~MicrotaskReady /\ DbUnavailable(r)
       \/ ~MicrotaskReady /\ AfterCreate(r)

SpecJobs == Init /\ [][NextJobs]_vars

\* Node runs every queued microtask and every callback that is ready, and
\* the database answers every query or the client gives the query up.  No
\* fairness for the LLM: fetch is called without a timeout or abort signal
\* (llm.service.ts lines 125-136), so its promise may stay pending.
NodeAndDbSteps ==
  \/ \E jobId \in JobIds : RunJob(jobId)
  \/ \E jobId \in JobIds : RunJobSettle(jobId)
  \/ \E r \in Requests :
       \/ ~MicrotaskReady /\ FindUniqueExec(r)
       \/ ~MicrotaskReady /\ AfterFind(r)
       \/ ~MicrotaskReady /\ CreateExec(r)
       \/ ~MicrotaskReady /\ AfterCreate(r)

SpecJobsFair == Init /\ [][NextJobs]_vars /\ WF_vars(NodeAndDbSteps)

(***************************************************************************)
(* The dependency graph of a batch, stated without the traversal.          *)
(***************************************************************************)
IdsOf(tasks) == {tasks[i].id : i \in DOMAIN tasks}

\* the tasks that some task with an id in S lists as a dependency
Successors(tasks, S) ==
  {d \in IdsOf(tasks) :
     \E i \in DOMAIN tasks : tasks[i].id \in S /\ d \in Range(tasks[i].dependencies)}

RECURSIVE ReachableFrom(_, _)
ReachableFrom(tasks, R) ==
  LET more == R \cup Successors(tasks, R)
  IN IF more = R THEN R ELSE ReachableFrom(tasks, more)

\* cycle participant: reachable from itself by one or more dependency edges
OnCycle(tasks, id) == id \in ReachableFrom(tasks, Successors(tasks, {id}))

\* out is the subsequence of inp made of the entries that are in ids,
\* in their order and with their multiplicity
KeptPositions(inp, ids) == {p \in DOMAIN inp : inp[p] \in ids}

IsSubsequenceOfValid(inp, out, ids) ==
  LET kept == KeptPositions(inp, ids)
  IN /\ Len(out) = Cardinality(kept)
     /\ \A p \in kept : out[Cardinality({q \in kept : q <= p})] = inp[p]

(***************************************************************************)
(* Claims about the pure functions (SpecGraph).                            *)
(***************************************************************************)
\* C3: a task gets status error if and only if it is on a directed cycle of
\* the sanitized dependency graph of its batch.
C3_ErrorIffOnCycle ==
  phase = "marked" =>
    \A i \in DOMAIN marked :
      (marked[i].status = "error") <=> OnCycle(sanitized, marked[i].id)

\* C4: a task that is on no directed cycle gets status ok, also when it
\* depends on a task that is on a cycle.
C4_OffCycleIsOk ==
  phase = "marked" =>
    \A i \in DOMAIN marked :
      ~OnCycle(sanitized, marked[i].id) => marked[i].status = "ok"

\* a marked batch where a task off every cycle depends on a cycle member
C4_Witness ==
  /\ phase = "marked"
  /\ \E i, j \in DOMAIN marked :
       /\ ~OnCycle(sanitized, marked[i].id)
       /\ OnCycle(sanitized, marked[j].id)
       /\ marked[j].id \in Range(sanitized[i].dependencies)
       /\ marked[i].status = "ok"
       /\ marked[j].status = "error"

\* C10: sanitizeTaskDependencies keeps the number, order and ids of the
\* tasks and gives each task exactly the subsequence of its dependency list
\* made of the ids of the batch, in order and with multiplicity; it is
\* defined on every batch.
C10_SanitizeIsFilter ==
  /\ phase = "input" => ENABLED Sanitize
  /\ phase \in {"sanitized", "marked"} =>
       /\ Len(sanitized) = Len(batch)
       /\ \A i \in DOMAIN batch :
            /\ sanitized[i].id = batch[i].id
            /\ sanitized[i].priority = batch[i].priority
            /\ IsSubsequenceOfValid(batch[i].dependencies,
                                    sanitized[i].dependencies, IdsOf(batch))

\* a sanitized batch where an unknown id was dropped from a list that keeps
\* a task id twice
C10_Witness ==
  /\ phase = "sanitized"
  /\ \E i \in DOMAIN batch :
       /\ "x" \in Range(batch[i].dependencies)
       /\ Len(sanitized[i].dependencies) = 2
       /\ sanitized[i].dependencies[1] = sanitized[i].dependencies[2]

(***************************************************************************)
(* Claims about processTranscript (Spec, SpecSeq).                         *)
(***************************************************************************)
SameText(r1, r2) ==
  /\ r1 # r2
  /\ req[r1].transcript # None
  /\ req[r1].transcript = req[r2].transcript

Finished(r) == pc[r] \in {"done", "failed"}

\* C1: of two calls with the same transcript text at most one performs
\* extraction, also when they run concurrently on a new transcript.  Stated
\* here in its weakest form: two such calls have both called the extraction
\* collaborator only if one of them has already failed.
C1_AtMostOneExtraction ==
  \A r1, r2 \in Requests :
    (SameText(r1, r2) /\ extractCalls[r1] > 0 /\ extractCalls[r2] > 0)
      => (pc[r1] = "failed" \/ pc[r2] = "failed")

\* r1 started before r2
StartedBefore(r1, r2) ==
  /\ r1 \in Range(startOrder)
  /\ r2 \in Range(startOrder)
  /\ IndexOf(startOrder, r1) < IndexOf(startOrder, r2)

C5_OneRecordPerHash ==
  \A row1, row2 \in dbTranscript : row1.hash = row2.hash => row1 = row2

\* two calls raced on a new transcript, both extracted, one created the
\* record and the create of the other was rejected
C5_Witness ==
  \E r1, r2 \in Requests :
    /\ SameText(r1, r2)
    /\ extractCalls[r1] = 1 /\ extractCalls[r2] = 1
    /\ \E row \in dbTranscript : row.id = r1
    /\ pc[r2] = "failed" /\ req[r2].error = "PersistenceError"
    /\ Len(req[r2].finalTasks) = 2

\* C6: a request that failed has added no record to durable storage and no
\* entry to the cache.
C6_FailedRequestLeavesNothing ==
  \A r \in Requests :
    pc[r] = "failed" =>
      /\ \A row \in dbTranscript : row.id # r
      /\ \A row \in dbTask : row.transcriptId # r
      /\ cacheSets[r] = 0

\* one request failed at persistence with its tasks computed, another at
\* extraction or validation
C6_Witness ==
  \E r1, r2 \in Requests :
    /\ pc[r1] = "failed" /\ req[r1].error = "PersistenceError"
    /\ Len(req[r1].finalTasks) = 2
    /\ pc[r2] = "failed" /\ req[r2].error \in {"ProviderError", "ValidationError"}

\* C7: every record of durable storage is complete: the transcript text of
\* the request that created it and exactly the tasks of that request's
\* batch, each with its status; and no task row is without its record.
C7_RecordsComplete ==
  /\ \A row \in dbTranscript :
       /\ row.content = req[row.id].transcript
       /\ row.hash = hashTranscript(row.content)
       /\ TaskRowsOf(dbTask, row.id) =
            {TaskRow(row.id, req[row.id].finalTasks[i]) :
               i \in DOMAIN req[row.id].finalTasks}
  /\ \A taskRow \in dbTask :
       /\ taskRow.status \in {"ready", "error"}
       /\ \E row \in dbTranscript : row.id = taskRow.transcriptId

\* a record with two tasks is in storage while its creator has not yet
\* returned and another request is between two of its steps
C7_Witness ==
  \E r1, r2 \in Requests :
    /\ r1 # r2
    /\ pc[r1] = "createReturned"
    /\ Cardinality(TaskRowsOf(dbTask, r1)) = 2
    /\ pc[r2] \in {"findUnique", "findReturned", "extracting", "creating"}

\* C8: every hash with a cache entry has a record in durable storage, and
\* the cached result has the hash, the text and the tasks of that record.
C8_CacheBackedByStore ==
  \A h \in Hashes :
    transcriptStore[h] # Null =>
      LET cached == Get(transcriptStore[h])
      IN /\ cached.hash = h
         /\ \E row \in dbTranscript :
              /\ row.hash = h
              /\ cached.transcript = row.content
              /\ Len(cached.tasks) = Cardinality(TaskRowsOf(dbTask, row.id))
              /\ {TaskRow(row.id, cached.tasks[i]) : i \in DOMAIN cached.tasks}
                   = TaskRowsOf(dbTask, row.id)

\* the cache holds a result of two tasks, one with status error
C8_Witness ==
  \E h \in Hashes :
    /\ transcriptStore[h] # Null
    /\ Len(Get(transcriptStore[h]).tasks) = 2
    /\ \E i \in 1..2 : Get(transcriptStore[h]).tasks[i].status = "error"

\* C9: in every result returned, cached or persisted, each dependency id of
\* each task is the id of a task of the same result.
DependenciesClosed(tasks) ==
  \A i \in DOMAIN tasks :
    \A d \in Range(tasks[i].dependencies) : d \in IdsOf(tasks)

C9_DependenciesClosed ==
  /\ \A r \in Requests :
       req[r].result # Null => DependenciesClosed(Get(req[r].result).tasks)
  /\ \A h \in Hashes :
       transcriptStore[h] # Null =>
         DependenciesClosed(Get(transcriptStore[h]).tasks)
  /\ \A taskRow \in dbTask :
       \A d \in Range(taskRow.dependencies) :
         \E other \in TaskRowsOf(dbTask, taskRow.transcriptId) : other.id = d

\* a result was returned, cached and persisted for the batch whose task b
\* listed a and the unknown id x
C9_Witness ==
  \E r \in Requests :
    /\ pc[r] = "done"
    /\ transcriptStore[HashOf(r)] = req[r].result
    /\ \E i \in DOMAIN Get(req[r].result).tasks :
         /\ Get(req[r].result).tasks[i].description = "db"
         /\ Get(req[r].result).tasks[i].dependencies = <<"a">>
    /\ \E taskRow \in dbTask :
         taskRow.description = "db" /\ taskRow.dependencies = <<"a">>

\* C17: two tasks that each list the other among their dependencies both
\* get status error, whatever else the batch holds and in whatever order.
C17_MutualDependencyBothError ==
  phase = "marked" =>
    \A i, j \in DOMAIN batch :
      (/\ i # j
       /\ batch[j].id \in Range(batch[i].dependencies)
       /\ batch[i].id \in Range(batch[j].dependencies))
      => marked[i].status = "error" /\ marked[j].status = "error"

\* a marked batch of three tasks where the task listed first depends on the
\* third task before it depends on its partner
C17_Witness ==
  /\ phase = "marked"
  /\ Len(batch) = 3
  /\ \E j \in {2, 3} :
       /\ batch[j].id \in Range(batch[1].dependencies)
       /\ batch[1].id \in Range(batch[j].dependencies)
       /\ batch[1].dependencies[1] = batch[5 - j].id
       /\ marked[1].status = "error"
       /\ marked[j].status = "error"

\* C18: a task that lists its own id among its dependencies gets status
\* error, wherever the id stands in the list and whatever else the batch
\* holds.
C18_SelfDependencyIsError ==
  phase = "marked" =>
    \A i \in DOMAIN batch :
      batch[i].id \in Range(batch[i].dependencies) => marked[i].status = "error"

\* a marked batch where the second task lists itself after another task
C18_Witness ==
  /\ phase = "marked"
  /\ Len(batch) >= 2
  /\ Len(batch[2].dependencies) >= 2
  /\ batch[2].dependencies[1] = batch[1].id
  /\ batch[2].dependencies[2] = batch[2].id
  /\ marked[2].status = "error"
  /\ marked[1].status = "ok"

\* the directed cycles of a batch: sequences of distinct task ids where each
\* task lists the next one, and the last lists the first
DependsOn(tasks, from, to) ==
  \E i \in DOMAIN tasks : tasks[i].id = from /\ to \in Range(tasks[i].dependencies)

CyclesOf(tasks) ==
  UNION {{c \in [1..k -> IdsOf(tasks)] :
            /\ \A i, j \in 1..k : c[i] = c[j] => i = j
            /\ \A i \in 1..k : DependsOn(tasks, c[i], c[(i % k) + 1])}
         : k \in 1..Len(tasks)}

StatusOf(tasks, id) ==
  tasks[CHOOSE i \in DOMAIN tasks : tasks[i].id = id].status

\* C22: every directed cycle of the batch has a task with status error, so
\* a batch with a cycle never comes out with every task ok.
C22_EveryCycleHasError ==
  phase = "marked" =>
    \A c \in CyclesOf(batch) :
      \E i \in DOMAIN c : StatusOf(marked, c[i]) = "error"

\* a marked batch with the cycle a -> c -> b -> a on which c is left ok and
\* the other two tasks are error
C22_Witness ==
  /\ phase = "marked"
  /\ <<"a", "c", "b">> \in CyclesOf(batch)
  /\ StatusOf(marked, "c") = "ok"
  /\ StatusOf(marked, "a") = "error"
  /\ StatusOf(marked, "b") = "error"

(***************************************************************************)
(* Claims about errors of the pipeline.                                    *)
(***************************************************************************)
\* the request received a batch that passes validation
ReceivedValid(r) ==
  /\ extracted[r] # Null
  /\ validateTasksWithZod(Get(extracted[r])) # ZodError

\* C11: cycles never make a request fail: a request whose batch passed
\* validation has a status ok or error for every task of the batch and fails
\* only if the database rejects or cannot serve it, and the record persisted
\* for it has status error on every task that is on a cycle of the batch.
C11_CyclicBatchPersistedMarked ==
  \A r \in Requests :
    ReceivedValid(r) =>
      /\ req[r].error \in {None, "PersistenceError"}
      /\ Len(req[r].finalTasks) = Len(Get(extracted[r]))
      /\ \A i \in DOMAIN req[r].finalTasks :
           req[r].finalTasks[i].status \in {"ok", "error"}
      /\ \A row \in TaskRowsOf(dbTask, r) :
           OnCycle(req[r].finalTasks, row.id) => row.status = "error"

\* C12: when one task of the extracted batch has a priority that is not
\* exactly low, medium or high, the request fails with a validation error
\* and nothing of the batch is returned, persisted or cached.
C12_InvalidPriorityFailsAll ==
  \A r \in Requests :
    (/\ extracted[r] # Null
     /\ \E i \in DOMAIN Get(extracted[r]) :
          Get(extracted[r])[i].priority \notin {"low", "medium", "high"})
    => /\ pc[r] = "failed"
       /\ req[r].error = "ValidationError"
       /\ req[r].result = Null
       /\ ~\E row \in dbTranscript : row.id = r
       /\ TaskRowsOf(dbTask, r) = {}
       /\ cacheSets[r] = 0
       /\ transcriptStore[HashOf(r)] # Null =>
            \E q \in Requests \ {r} :
              pc[q] = "done" /\ HashOf(q) = HashOf(r) /\ cacheSets[q] > 0

\* two requests rejected, one for a batch with a valid task and a task of
\* priority urgent, one for a task of priority High
C12_Witness ==
  \E r1, r2 \in Requests :
    /\ pc[r1] = "failed" /\ pc[r2] = "failed"
    /\ extracted[r1] # Null /\ extracted[r2] # Null
    /\ \E i, j \in DOMAIN Get(extracted[r1]) :
         /\ Get(extracted[r1])[i].priority = "low"
         /\ Get(extracted[r1])[j].priority = "urgent"
    /\ \E i \in DOMAIN Get(extracted[r2]) :
         Get(extracted[r2])[i].priority = "High"

(***************************************************************************)
(* Claims about the cache and the store.                                   *)
(***************************************************************************)
\* result carries the fields of record, task by task in the record's order,
\* with status ready read as ok and status error as error
IsTranslationOf(result, record) ==
  /\ result.hash = record.hash
  /\ result.transcript = record.content
  /\ result.createdAt = record.createdAt
  /\ Len(result.tasks) = Len(record.tasks)
  /\ \A i \in DOMAIN record.tasks :
       /\ result.tasks[i].id = record.tasks[i].id
       /\ result.tasks[i].description = record.tasks[i].description
       /\ result.tasks[i].priority = record.tasks[i].priority
       /\ result.tasks[i].dependencies = record.tasks[i].dependencies
       /\ result.tasks[i].status =
            (IF record.tasks[i].status = "ready" THEN "ok" ELSE "error")

\* C13: a request that missed the cache and to which the store returned a
\* record ends with the translation of that record, leaves a cache entry for
\* its hash and has called extraction zero times; a request that hits the
\* cache ends with the cached result without a query to the store and
\* without a call of extraction; a finished request makes no further call.
C13_FoundOrHitSkipsExtraction ==
  [][\A r \in Requests :
       /\ (pc[r] = "findReturned" /\ req[r].dbExisting # Null /\ pc'[r] # pc[r])
          => /\ pc'[r] = "done"
             /\ req'[r].result # Null
             /\ IsTranslationOf(Get(req'[r].result), Get(req[r].dbExisting))
             /\ transcriptStore'[HashOf(r)] # Null
             /\ extractCalls'[r] = 0
             /\ dbCalls'[r] = 1
       /\ (/\ pc[r] = "idle" /\ pc'[r] # "idle"
           /\ transcriptStore[hashTranscript(req'[r].transcript)] # Null)
          => /\ pc'[r] = "done"
             /\ req'[r].result = transcriptStore[hashTranscript(req'[r].transcript)]
             /\ dbCalls'[r] = 0
             /\ extractCalls'[r] = 0
             /\ UNCHANGED <<dbTranscript, dbTask>>
       /\ pc[r] = "done"
          => /\ pc'[r] = "done"
             /\ extractCalls'[r] = extractCalls[r]
             /\ dbCalls'[r] = dbCalls[r]
    ]_vars

\* a request that found the record of a concurrent request in the store:
\* one query, no extraction, and the entry it cached
C13_Witness ==
  \E r \in Requests :
    /\ pc[r] = "done"
    /\ dbCalls[r] = 1
    /\ extractCalls[r] = 0
    /\ cacheSets[r] = 1
    /\ transcriptStore[HashOf(r)] # Null
    /\ \E row \in dbTranscript : row.hash = HashOf(r) /\ row.id # r

(***************************************************************************)
(* Claims about jobs.                                                      *)
(***************************************************************************)
JobStatusOf(jobId) == Get(jobStore[jobId]).status

\* C14: every processTranscript call that started ends with a result or an
\* error, and every job that was created reaches status done or error.
C14_EveryJobEnds ==
  \A jobId \in JobIds :
    /\ (pc[jobId] # "idle") ~> (pc[jobId] \in {"done", "failed"})
    /\ (jobStore[jobId] # Null) ~>
         (jobStore[jobId] # Null /\ JobStatusOf(jobId) \in {"done", "error"})

JobsOfHash(hash) ==
  {jobId \in JobIds : jobStore[jobId] # Null /\ Get(jobStore[jobId]).hash = hash}

\* C15: at every moment each hash has at most one job, and a submission for
\* a hash that has a job returns that job as it is in the job store and
\* leaves the job store unchanged.
C15_OneJobPerHash ==
  /\ [](\A hash \in Hashes : Cardinality(JobsOfHash(hash)) <= 1)
  /\ [][returned' # returned =>
          LET hash == Get(returned').hash
          IN JobsOfHash(hash) # {} =>
               /\ jobStore' = jobStore
               /\ Get(returned').id \in JobsOfHash(hash)
               /\ returned' = jobStore[Get(returned').id]
               /\ microtasks' = microtasks
       ]_vars

\* a submission returned the job of its hash after that job had failed,
\* while the other hash has a job of its own
C15_Witness ==
  /\ returned # Null
  /\ Get(returned).status = "error"
  /\ \A hash \in Hashes : Cardinality(JobsOfHash(hash)) = 1

JobTransitions ==
  {<<"pending", "processing">>, <<"processing", "done">>,
   <<"processing", "error">>}

\* C16: a job is created pending, stays in the job store, and each change of
\* its status is pending to processing, processing to done or processing to
\* error; so done and error are never left.
C16_StatusOrder ==
  [][\A jobId \in JobIds :
       /\ (jobStore[jobId] = Null /\ jobStore'[jobId] # Null)
          => Get(jobStore'[jobId]).status = "pending"
       /\ jobStore[jobId] # Null
          => /\ jobStore'[jobId] # Null
             /\ \/ Get(jobStore'[jobId]).status = JobStatusOf(jobId)
                \/ <<JobStatusOf(jobId), Get(jobStore'[jobId]).status>>
                     \in JobTransitions
    ]_vars

\* one job ended done and another ended error
C16_Witness ==
  \E j1, j2 \in JobIds :
    /\ jobStore[j1] # Null /\ JobStatusOf(j1) = "done"
    /\ jobStore[j2] # Null /\ JobStatusOf(j2) = "error"

\* C19: once a hash has a cache entry, no step removes the entry or changes
\* the result stored under the hash.
C19_CacheAppendOnly ==
  [][\A hash \in Hashes :
       transcriptStore[hash] # Null => transcriptStore'[hash] = transcriptStore[hash]
    ]_vars

\* two results that differ at most in the order of their tasks
SameUpToTaskOrder(x, y) ==
  /\ x.hash = y.hash
  /\ x.transcript = y.transcript
  /\ x.createdAt = y.createdAt
  /\ Len(x.tasks) = Len(y.tasks)
  /\ Range(x.tasks) = Range(y.tasks)

\* C19 as amended: once a hash has a cache entry, no step removes it, and a
\* step that writes the entry again stores the same result up to the order
\* of its tasks.
C19_CacheEntryKeepsRecord ==
  [][\A hash \in Hashes :
       transcriptStore[hash] # Null =>
         /\ transcriptStore'[hash] # Null
         /\ SameUpToTaskOrder(Get(transcriptStore'[hash]), Get(transcriptStore[hash]))
    ]_vars

\* the entry of a hash was written by the request that created the record
\* and again by a request that read the record, in another task order
C19_Witness ==
  \E r1, r2 \in Requests :
    /\ r1 # r2
    /\ pc[r1] = "done" /\ pc[r2] = "done"
    /\ HashOf(r1) = HashOf(r2)
    /\ cacheSets[r1] = 1 /\ cacheSets[r2] = 1
    /\ extractCalls[r2] = 0
    /\ req[r1].result # req[r2].result
    /\ transcriptStore[HashOf(r2)] = req[r2].result

\* the create of request r meets no record of its hash and carries no task
\* id twice
CreateIsFresh(r) ==
  /\ pc[r] = "creating"
  /\ ~\E row \in dbTranscript : row.hash = HashOf(r)
  /\ \A i, j \in DOMAIN req[r].finalTasks :
       req[r].finalTasks[i].id = req[r].finalTasks[j].id => i = j

\* C20: the create of a transcript whose hash has no record and whose task
\* ids are distinct is accepted by the database whatever task ids the
\* records of other transcripts hold, and no step changes or removes a
\* stored transcript row or the task rows under it.
C20_OtherTranscriptsUntouched ==
  /\ [](\A r \in Requests :
         CreateIsFresh(r) => ENABLED (CreateExec(r) /\ pc'[r] = "createReturned"))
  /\ [][\A row \in dbTranscript :
          /\ row \in dbTranscript'
          /\ TaskRowsOf(dbTask', row.id) = TaskRowsOf(dbTask, row.id)
       ]_vars

\* two requests for different transcripts ended with a result, and their
\* records hold task rows of the same ids
C20_Witness ==
  \E r1, r2 \in Requests :
    /\ pc[r1] = "done" /\ pc[r2] = "done"
    /\ HashOf(r1) # HashOf(r2)
    /\ TaskRowsOf(dbTask, r1) # {}
    /\ {row.id : row \in TaskRowsOf(dbTask, r1)}
         = {row.id : row \in TaskRowsOf(dbTask, r2)}
    /\ \E row \in TaskRowsOf(dbTask, r1) : row.status = "error"
    /\ \A row \in TaskRowsOf(dbTask, r2) : row.status = "ready"

\* request r was answered from the record in the database: one query, no
\* extraction
ServedFromStore(r) ==
  /\ pc[r] = "done"
  /\ dbCalls[r] = 1
  /\ extractCalls[r] = 0

\* C21: a result served from the database has the hash and, task for task,
\* the id, description, priority, dependencies and status of the result that
\* the creating request returned; a task returned ok is stored as ready, a
\* task returned error is stored as error.
C21_StoreRoundTrip ==
  \A r1, r2 \in Requests :
    (/\ pc[r1] = "done"
     /\ \E row \in dbTranscript : row.id = r1
     /\ ServedFromStore(r2)
     /\ HashOf(r1) = HashOf(r2))
    => LET created == Get(req[r1].result)
           served == Get(req[r2].result)
       IN /\ served.hash = created.hash
          /\ Len(served.tasks) = Len(created.tasks)
          /\ Range(served.tasks) = Range(created.tasks)
          /\ \A i \in DOMAIN created.tasks :
               \E row \in TaskRowsOf(dbTask, r1) :
                 /\ row.id = created.tasks[i].id
                 /\ created.tasks[i].status = "ok" <=> row.status = "ready"
                 /\ created.tasks[i].status = "error" <=> row.status = "error"

\* after a restart a request was answered from the record of an earlier
\* request, and the result has a task with status error and a task with
\* status ok
C21_Witness ==
  \E r1, r2 \in Requests :
    /\ pc[r1] = "done"
    /\ \E row \in dbTranscript : row.id = r1
    /\ ServedFromStore(r2)
    /\ HashOf(r1) = HashOf(r2)
    /\ \E i, j \in DOMAIN Get(req[r2].result).tasks :
         /\ Get(req[r2].result).tasks[i].status = "error"
         /\ Get(req[r2].result).tasks[j].status = "ok"

(***************************************************************************)
(* Claims about the marking of a batch, continued (SpecGraph).             *)
(***************************************************************************)
\* C27: the marking step gives back the tasks of the sanitized batch, in
\* their order, each with its id, its priority and its dependency list, and
\* leaves the batch and the sanitized batch as they were.
C27_OnlyStatusChanges ==
  [][phase' = "marked" =>
       /\ batch' = batch
       /\ sanitized' = sanitized
       /\ DOMAIN marked' = DOMAIN sanitized
       /\ \A i \in DOMAIN sanitized :
            /\ marked'[i].id = sanitized[i].id
            /\ marked'[i].priority = sanitized[i].priority
            /\ marked'[i].dependencies = sanitized[i].dependencies
            /\ marked'[i].status \in {"ok", "error"}
    ]_vars

\* a batch of three tasks came out with a task of a cycle after a task off
\* the cycle, the dependency lists of both as they were
C27_Witness ==
  /\ phase = "marked"
  /\ Len(marked) = 3
  /\ marked[1].status = "ok" /\ marked[1].dependencies # <<>>
  /\ marked[2].status = "error" /\ Len(marked[2].dependencies) = 2
  /\ marked[3].status = "error"
  /\ \A i \in DOMAIN marked : marked[i].dependencies = sanitized[i].dependencies

\* C29: detectCycles gives every task of a batch the status it gives it on
\* the sanitized batch.
C29_UnknownIdsHaveNoEffect ==
  phase = "marked" =>
    LET raw == markCyclicTasks(batch)
    IN /\ DOMAIN raw = DOMAIN marked
       /\ \A i \in DOMAIN marked :
            raw[i].id = marked[i].id /\ raw[i].status = marked[i].status

\* a batch with dependency ids that name no task, listed by a task of a
\* cycle before its edge of the cycle and by a task off every cycle
C29_Witness ==
  /\ phase = "marked"
  /\ \E i, j \in DOMAIN batch :
       /\ Len(batch[i].dependencies) >= 2
       /\ batch[i].dependencies[1] = "x"
       /\ marked[i].status = "error"
       /\ batch[j].dependencies = <<"x">>
       /\ marked[j].status = "ok"

(***************************************************************************)
(* Claims about the traversal of detectCycles (SpecDfs).                   *)
(***************************************************************************)
\* the launch loop is over and no dfs call is running
DfsDone ==
  /\ phase = "dfs"
  /\ callStack = <<>>
  /\ launched = Len(adjacencyKeys(batch))

Count(s, v) == Cardinality({i \in DOMAIN s : s[i] = v})

\* the step-by-step traversal ends with the set the operator computes
DfsRefinesDetectCycles ==
  DfsDone => dfsState.cycleNodes = detectCycles(batch)

\* C25: detectCycles ends on every batch; no node is entered twice or
\* completed without having been entered, and at the end every node has
\* been entered once and completed once.
C25_TerminatesEachNodeOnce ==
  /\ [](phase = "dfs" =>
          \A id \in DOMAIN adjacency(batch) :
            /\ Count(enterOrder, id) <= 1
            /\ Count(completeOrder, id) <= Count(enterOrder, id))
  /\ <>[](DfsDone /\ \A id \in DOMAIN adjacency(batch) :
                       /\ Count(enterOrder, id) = 1
                       /\ Count(completeOrder, id) = 1)

\* the traversal of three tasks is over; one of them is a dependency of
\* both others and was done when the launch loop started from the third
C25_Witness ==
  /\ DfsDone
  /\ Len(enterOrder) = 3
  /\ Len(completeOrder) = 3
  /\ completeOrder[1] = enterOrder[2]
  /\ completeOrder[2] = enterOrder[1]
  /\ completeOrder[3] = enterOrder[3]
  /\ \A i \in DOMAIN batch :
       batch[i].id # enterOrder[2] => enterOrder[2] \in Range(batch[i].dependencies)

\* C26: the stack holds the GRAY nodes, each once, in the order they were
\* entered; each node of the stack lists the node above it as a dependency;
\* at the end the stack is empty and every node is BLACK.
C26_StackIsGrayPath ==
  phase = "dfs" =>
    LET adj == adjacency(batch)
        st == dfsState
        IsGray(id) == st.colors[id] = GRAY
    IN /\ st.stack = SelectSeq(enterOrder, IsGray)
       /\ \A id \in DOMAIN adj : IsGray(id) <=> Count(st.stack, id) = 1
       /\ \A id \in Range(st.stack) : id \in DOMAIN adj
       /\ \A k \in 1..(Len(st.stack) - 1) :
            st.stack[k + 1] \in Range(adj[st.stack[k]])
       /\ DfsDone => /\ st.stack = <<>>
                     /\ \A id \in DOMAIN adj : st.colors[id] = BLACK

\* two nodes are on the stack, and between their entries a third node was
\* entered and completed
C26_Witness ==
  /\ phase = "dfs"
  /\ Len(dfsState.stack) = 2
  /\ Len(enterOrder) = 3
  /\ enterOrder[1] = dfsState.stack[1]
  /\ enterOrder[3] = dfsState.stack[2]
  /\ completeOrder = <<enterOrder[2]>>
  /\ dfsState.colors[enterOrder[2]] = BLACK

(***************************************************************************)
(* Claims about jobs, continued.                                           *)
(***************************************************************************)
\* the processTranscript calls made so far for a hash
StartsOfHash(hash) ==
  {i \in DOMAIN startOrder : HashOf(startOrder[i]) = hash}

\* C23: with job submissions only, processTranscript is called at most once
\* for each transcript hash.
C23_PipelineOncePerHash ==
  \A hash \in Hashes : Cardinality(StartsOfHash(hash)) <= 1

\* every transcript has a job, and a later submission of a transcript
\* returned its job, done, after the one processTranscript call of its hash
C23_Witness ==
  /\ returned # Null
  /\ Get(returned).status = "done"
  /\ Cardinality(StartsOfHash(Get(returned).hash)) = 1
  /\ extractCalls[Get(returned).id] = 1
  /\ \A hash \in Hashes : JobsOfHash(hash) # {}

\* C24: a job in status error is never changed again, and a submission of
\* its transcript returns that job, in error, without a new job, a new
\* microtask or a new processTranscript call.
C24_ErrorJobStays ==
  [][\A jobId \in JobIds :
       (jobStore[jobId] # Null /\ JobStatusOf(jobId) = "error")
       => /\ jobStore'[jobId] = jobStore[jobId]
          /\ (returned' # returned /\ Get(returned').hash = Get(jobStore[jobId]).hash)
             => /\ returned' = jobStore[jobId]
                /\ jobStore' = jobStore
                /\ microtasks' = microtasks
                /\ startOrder' = startOrder
    ]_vars

\* the job of a transcript failed on the validation of the batch and a later
\* submission of the transcript returned it
C24_Witness ==
  /\ returned # Null
  /\ Get(returned).status = "error"
  /\ Get(returned).error = "ValidationError"
  /\ jobStore[Get(returned).id] = returned
  /\ pc[Get(returned).id] = "failed"

\* C28: a job has a result exactly when its status is done and an error
\* message exactly when its status is error.
C28_ResultIffDone ==
  \A jobId \in JobIds :
    jobStore[jobId] # Null =>
      /\ Get(jobStore[jobId]).result # Null <=> JobStatusOf(jobId) = "done"
      /\ Get(jobStore[jobId]).error # None <=> JobStatusOf(jobId) = "error"

\* one job is done with its result, another is in error with its message
C28_Witness ==
  \E j1, j2 \in JobIds :
    /\ jobStore[j1] # Null /\ JobStatusOf(j1) = "done"
    /\ Get(jobStore[j1]).result = req[j1].result
    /\ jobStore[j2] # Null /\ JobStatusOf(j2) = "error"
    /\ Get(jobStore[j2]).error = "PersistenceError"

====
